---- MODULE Spec2Model ----
(***************************************************************************)
(* Model of notmuch_propagate_mute.py: the selection query, the recursive  *)
(* apply_mute traversal and the tags it writes, together with the mail     *)
(* store's environment (arriving messages, the human's command tag).       *)
(***************************************************************************)
EXTENDS Integers, Sequences, FiniteSets, TLC

\* ------------------------------------------------------------------ bounds
MaxMsgs == 3
MaxUnitMsgs == 2
MaxFailMsgs == 2
UnitCalls == 2

\* --------------------------------------------------------------- constants
MUTE_CMD_TAG == "mute-thread"
MUTED_TAG == "thread-muted"
PROCESSED_TAG == "mute-processed"

\* class Addressed(enum.IntEnum)
NONE == 0
CC == 1
TO == 2

\* Python's None, as passed for parent_addressed at the thread root.
None == -1

\* args.email, and another address, as character sequences.
EMAIL == <<"m", "e">>
SOMEONE == <<"y", "o", "u">>

\* The (To, Cc) header pairs messages of the store are drawn from.
HeaderPairs == { <<EMAIL, SOMEONE>>, <<SOMEONE, EMAIL>>, <<SOMEONE, <<>> >> }

\* The values of --query-extra: none, or one more term.
ExtraFilters == { "", "to:me" }

Tags == { MUTE_CMD_TAG, MUTED_TAG, PROCESSED_TAG }

VARIABLES
    parent,        \* parent[m]: the message m replies to, 0 for a thread root
    hdrTo,         \* hdrTo[m]: the To header of m
    hdrCc,         \* hdrCc[m]: the Cc header of m
    tags,          \* tags[m]: the tag set of m
    pc,            \* position of the script: idle, muting, report; unit
    query_extra,   \* args.query_extra of the running script
    selected,      \* roots returned by the query of the muting loop
    pending,       \* roots the muting loop has still to visit
    stack,         \* activations of apply_mute, innermost last
    exit_status,   \* how the last run ended: ok, error; none before its end
    shown,         \* roots returned by the query of the final print loop
    unit_pm,       \* unit harness: parent_muted passed to the outermost call
    ncalls,        \* unit harness: outermost calls that have returned
    first_tags     \* unit harness: the tags when the first call returned

store == <<parent, hdrTo, hdrCc>>
script == <<pc, query_extra, selected, pending, exit_status, shown>>
harness == <<unit_pm, ncalls, first_tags>>
vars == <<parent, hdrTo, hdrCc, tags, pc, query_extra, selected, pending, stack,
          exit_status, shown, unit_pm, ncalls, first_tags>>

Msgs == 1..Len(parent)

\* ------------------------------------------------------------ the store
\* `needle in hay` on Python strings: substring containment.
Contains(needle, hay) ==
    \E i \in 0..(Len(hay) - Len(needle)) :
        SubSeq(hay, i + 1, i + Len(needle)) = needle

\* Message.get_replies(): the direct replies of m.
get_replies(m) == { c \in Msgs : parent[c] = m }

RECURSIVE Root(_)
\* The first message of the thread that holds m.
Root(m) == IF parent[m] = 0 THEN m ELSE Root(parent[m])

Roots == { m \in Msgs : parent[m] = 0 }

\* The messages of the thread whose root is r.
Thread(r) == { m \in Msgs : Root(m) = r }

\* Addressed.from_msg
from_msg(m) ==
    IF Contains(EMAIL, hdrTo[m]) THEN TO
    ELSE IF Contains(EMAIL, hdrCc[m]) THEN CC
    ELSE NONE

\* The terms of --query-extra, evaluated on a message: to:me matches a
\* message that names the address in its To or Cc header.
ExtraMatches(extra, m) ==
    IF extra = "" THEN TRUE
    ELSE Contains(EMAIL, hdrTo[m]) \/ Contains(EMAIL, hdrCc[m])

\* Faulty variant: the query forgets the command tag.
QueryMatches_no_command(extra, m) ==
    /\ PROCESSED_TAG \notin tags[m]
    /\ ExtraMatches(extra, m)

\* query_string, evaluated on a message.
QueryMatches(extra, m) ==
    /\ MUTE_CMD_TAG \in tags[m]
    /\ PROCESSED_TAG \notin tags[m]
    /\ ExtraMatches(extra, m)

\* db.create_query(query_string).search_threads(), each thread given by the
\* message next(thread.get_messages()) yields.
search_threads(extra) == { Root(m) : m \in { x \in Msgs : QueryMatches(extra, x) } }

\* --------------------------------------------------------------- apply_mute
\* Faulty variant: the parent's state is consulted before the command tag.
mute_of_parent_first(msg, parent_muted, parent_addressed) ==
    IF parent_muted
    THEN IF parent_addressed = None
         THEN FALSE
         ELSE from_msg(msg) <= parent_addressed
    ELSE MUTE_CMD_TAG \in tags[msg]

\* Faulty variant: the levels are compared with < instead of <=.
mute_of_strict(msg, parent_muted, parent_addressed) ==
    IF MUTE_CMD_TAG \in tags[msg] THEN TRUE
    ELSE IF parent_muted
         THEN IF parent_addressed = None
              THEN FALSE
              ELSE from_msg(msg) < parent_addressed
         ELSE FALSE

\* Faulty variant: line 90 tests the processed marker, not the command tag.
mute_of_wrong_tag(msg, parent_muted, parent_addressed) ==
    IF PROCESSED_TAG \in tags[msg] THEN TRUE
    ELSE IF parent_muted
         THEN IF parent_addressed = None
              THEN FALSE
              ELSE from_msg(msg) <= parent_addressed
         ELSE FALSE

\* Faulty variant: the parent's decision is not consulted.
mute_of_ignore_parent(msg, parent_muted, parent_addressed) ==
    IF MUTE_CMD_TAG \in tags[msg] THEN TRUE
    ELSE IF parent_addressed = None
         THEN FALSE
         ELSE from_msg(msg) <= parent_addressed

\* Faulty variant: a message that already carries the muted tag stays muted.
mute_of_memo(msg, parent_muted, parent_addressed) ==
    IF MUTE_CMD_TAG \in tags[msg] \/ MUTED_TAG \in tags[msg] THEN TRUE
    ELSE IF parent_muted
         THEN IF parent_addressed = None
              THEN FALSE
              ELSE from_msg(msg) <= parent_addressed
         ELSE FALSE

\* Lines 89-101: the mute decision for msg under the caller's context.
mute_of(msg, parent_muted, parent_addressed) ==
    IF MUTE_CMD_TAG \in tags[msg] THEN TRUE
    ELSE IF parent_muted
         THEN IF parent_addressed = None
              THEN FALSE
              ELSE from_msg(msg) <= parent_addressed
         ELSE FALSE

\* Message.add_tag applied to msg for every tag of the set added.
add_tags(msg, added) == [tags EXCEPT ![msg] = @ \cup added]

\* Faulty variant: the muted tag is written whatever the decision.
muted_added_always(mute) == {MUTED_TAG}

\* Lines 103-104: the muted tag, written when the decision is to mute.
muted_added(mute) == IF mute THEN {MUTED_TAG} ELSE {}

\* Faulty variant: the tag set of msg is replaced, not added to.
tags_after_replace(msg, mute) ==
    [tags EXCEPT ![msg] = muted_added(mute) \cup {PROCESSED_TAG}]

\* Faulty variant: the visit does not write the processed marker.
tags_after_no_marker(msg, mute) == add_tags(msg, muted_added(mute))

\* Lines 103-105: the tags after the visit of msg.
tags_after(msg, mute) == add_tags(msg, muted_added(mute) \cup {PROCESSED_TAG})

\* Faulty variant: the replies of an unmuted message are not visited.
Frame_stop_unmuted(msg, parent_muted, parent_addressed) ==
    [ msg |-> msg,
      parent_muted |-> parent_muted,
      parent_addressed |-> parent_addressed,
      addressed |-> from_msg(msg),
      mute |-> mute_of(msg, parent_muted, parent_addressed),
      todo |-> IF mute_of(msg, parent_muted, parent_addressed)
               THEN get_replies(msg) ELSE {} ]

\* The activation of apply_mute(msg, parent_muted, parent_addressed) when it
\* reaches its loop over the replies (line 107).
Frame(msg, parent_muted, parent_addressed) ==
    [ msg |-> msg,
      parent_muted |-> parent_muted,
      parent_addressed |-> parent_addressed,
      addressed |-> from_msg(msg),
      mute |-> mute_of(msg, parent_muted, parent_addressed),
      todo |-> get_replies(msg) ]

\* Lines 82-105 of a call: decide, tag, and stand before the loop.
apply_mute(msg, parent_muted, parent_addressed, below) ==
    /\ tags' = tags_after(msg, mute_of(msg, parent_muted, parent_addressed))
    /\ stack' = Append(below, Frame(msg, parent_muted, parent_addressed))

Top == stack[Len(stack)]

\* Faulty variant: the decision for the reply taken replaces the caller's own,
\* so that it reaches the replies taken after it.
Taken_leaky(r) ==
    [stack EXCEPT ![Len(stack)].todo = @ \ {r},
                  ![Len(stack)].mute = mute_of(r, Top.mute, Top.addressed)]

\* The stack with reply r taken from the loop of the innermost activation.
Taken(r) == [stack EXCEPT ![Len(stack)].todo = @ \ {r}]

\* ------------------------------------------------------------ environment
Init ==
    /\ parent = <<>>
    /\ hdrTo = <<>>
    /\ hdrCc = <<>>
    /\ tags = <<>>
    /\ pc = "idle"
    /\ query_extra = ""
    /\ selected = {}
    /\ pending = {}
    /\ stack = <<>>
    /\ exit_status = "none"
    /\ shown = {}
    /\ unit_pm = FALSE
    /\ ncalls = 0
    /\ first_tags = <<>>

\* A message is imported into the store: a new thread (p = 0) or a reply.
Arrive(p, h) ==
    /\ pc = "idle"
    /\ Len(parent) < MaxMsgs
    /\ parent' = Append(parent, p)
    /\ hdrTo' = Append(hdrTo, h[1])
    /\ hdrCc' = Append(hdrCc, h[2])
    /\ tags' = Append(tags, {})
    /\ UNCHANGED <<script, stack, harness>>

\* The human applies the command tag to a message in the mail client.
AddCmd(m) ==
    /\ pc = "idle"
    /\ MUTE_CMD_TAG \notin tags[m]
    /\ tags' = add_tags(m, {MUTE_CMD_TAG})
    /\ UNCHANGED <<store, script, stack, harness>>

\* ----------------------------------------------------------------- __main__
\* Lines 118-135: the script starts, and the muting loop issues its query.
Select(extra) ==
    /\ pc = "idle"
    /\ pc' = "muting"
    /\ query_extra' = extra
    /\ selected' = search_threads(extra)
    /\ pending' = search_threads(extra)
    /\ shown' = {}
    /\ exit_status' = "none"
    /\ UNCHANGED <<store, tags, stack, harness>>

\* Faulty variant: the root is called with the context of a muted parent.
NextThread_muted_parent(r) ==
    /\ pc = "muting"
    /\ stack = <<>>
    /\ r \in pending
    /\ pending' = pending \ {r}
    /\ apply_mute(r, TRUE, TO, <<>>)
    /\ UNCHANGED <<store, pc, query_extra, selected, exit_status, shown,
                   harness>>

\* Line 136: the loop calls apply_mute on the root of its next thread.
NextThread(r) ==
    /\ pc = "muting"
    /\ stack = <<>>
    /\ r \in pending
    /\ pending' = pending \ {r}
    /\ apply_mute(r, FALSE, None, <<>>)
    /\ UNCHANGED <<store, pc, query_extra, selected, exit_status, shown,
                   harness>>

\* Faulty variant: the recursion does not hand its level to the reply.
Recurse_drop_level(r) ==
    /\ stack # <<>>
    /\ r \in Top.todo
    /\ apply_mute(r, Top.mute, None, Taken(r))
    /\ UNCHANGED <<store, script, harness>>

\* Lines 107-108: the innermost activation calls apply_mute on a reply.
Recurse(r) ==
    /\ stack # <<>>
    /\ r \in Top.todo
    /\ apply_mute(r, Top.mute, Top.addressed, Taken(r))
    /\ UNCHANGED <<store, script, harness>>

\* Line 108 falls through: the innermost activation has no reply left.
Return ==
    /\ stack # <<>>
    /\ Top.todo = {}
    /\ stack' = SubSeq(stack, 1, Len(stack) - 1)
    /\ ncalls' = IF Len(stack) = 1 /\ pc = "unit" THEN ncalls + 1 ELSE ncalls
    /\ first_tags' = IF Len(stack) = 1 /\ pc = "unit" /\ ncalls = 0
                     THEN tags ELSE first_tags
    /\ UNCHANGED <<store, tags, script, unit_pm>>

\* The muting loop is exhausted (line 135) and the final loop is reached.
Finish ==
    /\ pc = "muting"
    /\ stack = <<>>
    /\ pending = {}
    /\ pc' = "report"
    /\ UNCHANGED <<store, tags, query_extra, selected, pending, stack,
                   exit_status, shown, harness>>

\* Lines 139-140: the final loop queries again and prints; the script ends.
Report ==
    /\ pc = "report"
    /\ shown' = search_threads(query_extra)
    /\ pc' = "idle"
    /\ exit_status' = "ok"
    /\ query_extra' = ""
    /\ selected' = {}
    /\ UNCHANGED <<store, tags, pending, stack, harness>>

\* Faulty variant: the failure undoes the tags the script has written.
tags_failed_rollback(msg, mute, at) ==
    [m \in DOMAIN tags |-> tags[m] \ {MUTED_TAG, PROCESSED_TAG}]

\* The tags a call of apply_mute on msg leaves when the store fails at `at`:
\* reading the headers or tags (82, 90) or writing the muted tag (104),
\* writing the processed marker (105), or reading the replies (107).
tags_failed(msg, mute, at) ==
    IF at = "read" THEN tags
    ELSE IF at = "add_processed" THEN add_tags(msg, muted_added(mute))
    ELSE tags_after(msg, mute)

FailurePoints == { "read", "add_processed", "replies" }

\* The exception leaves apply_mute and the script: nothing is rolled back.
Crash(msg, parent_muted, parent_addressed, at) ==
    /\ tags' = tags_failed(msg, mute_of(msg, parent_muted, parent_addressed), at)
    /\ pc' = "idle"
    /\ exit_status' = "error"
    /\ query_extra' = ""
    /\ selected' = {}
    /\ pending' = {}
    /\ stack' = <<>>
    /\ UNCHANGED <<store, shown, harness>>

\* A store call fails during the visit of the root of the next thread.
FailRoot(r, at) ==
    /\ pc = "muting"
    /\ stack = <<>>
    /\ r \in pending
    /\ Crash(r, FALSE, None, at)

\* A store call fails during the visit of a reply.
FailReply(r, at) ==
    /\ pc = "muting"
    /\ stack # <<>>
    /\ r \in Top.todo
    /\ Crash(r, Top.mute, Top.addressed, at)

Next ==
    \/ \E p \in 0..Len(parent), h \in HeaderPairs : Arrive(p, h)
    \/ \E m \in Msgs : AddCmd(m)
    \/ \E extra \in ExtraFilters : Select(extra)
    \/ \E r \in Roots : NextThread(r)
    \/ \E r \in Msgs : Recurse(r)
    \/ Return
    \/ Finish
    \/ Report

\* The script over a store whose calls succeed.
Spec == Init /\ [][Next]_vars

\* Arrive, in the smaller store the failing runs are explored over.
ArriveFew(p, h) ==
    /\ Len(parent) < MaxFailMsgs
    /\ Arrive(p, h)

NextFail ==
    \/ \E p \in 0..Len(parent), h \in HeaderPairs : ArriveFew(p, h)
    \/ \E m \in Msgs : AddCmd(m)
    \/ \E extra \in ExtraFilters : Select(extra)
    \/ \E r \in Roots : NextThread(r)
    \/ \E r \in Msgs : Recurse(r)
    \/ Return
    \/ Finish
    \/ Report
    \/ \E r \in Roots, at \in FailurePoints : FailRoot(r, at)
    \/ \E r \in Msgs, at \in FailurePoints : FailReply(r, at)

\* The script over a store whose calls may fail.
SpecFail == Init /\ [][NextFail]_vars

\* ------------------------------------------------ apply_mute as a unit
\* The trees of n messages under the root 1, each reply below an earlier one.
Trees(n) == { p \in [1..n -> 0..n] : p[1] = 0 /\ \A m \in 2..n : p[m] \in 1..(m - 1) }

\* Any tree, headers and tags; the caller's parent_muted is an input too.
InitUnit ==
    /\ \E n \in 1..MaxUnitMsgs :
          /\ parent \in Trees(n)
          /\ \E h \in [1..n -> HeaderPairs] :
                /\ hdrTo = [m \in 1..n |-> h[m][1]]
                /\ hdrCc = [m \in 1..n |-> h[m][2]]
          /\ tags \in [1..n -> SUBSET Tags]
    /\ pc = "unit"
    /\ query_extra = ""
    /\ selected = {}
    /\ pending = {}
    /\ stack = <<>>
    /\ exit_status = "none"
    /\ shown = {}
    /\ unit_pm \in BOOLEAN
    /\ ncalls = 0
    /\ first_tags = <<>>

\* apply_mute(root, parent_muted, None) is called, again after it returns.
UnitCall ==
    /\ pc = "unit"
    /\ stack = <<>>
    /\ ncalls < UnitCalls
    /\ apply_mute(1, unit_pm, None, <<>>)
    /\ UNCHANGED <<store, script, harness>>

NextUnit ==
    \/ UnitCall
    \/ \E r \in Msgs : Recurse(r)
    \/ Return

SpecUnit == InitUnit /\ [][NextUnit]_vars

\* ------------------------------------------- from_msg on address lists
\* Addresses a header can list: args.email, the same address in another
\* letter case, and another address.
AddrPool == { EMAIL, <<"M", "e">>, SOMEONE }

\* The lists of at most two different addresses.
AddrLists ==
    { <<>> } \cup { <<a>> : a \in AddrPool }
             \cup { l \in AddrPool \X AddrPool : l[1] # l[2] }

RECURSIVE Join(_)
\* The header value that lists the addresses l, separated by commas.
Join(l) ==
    IF l = <<>> THEN <<>>
    ELSE IF Len(l) = 1 THEN l[1]
    ELSE l[1] \o <<",">> \o Join(Tail(l))

\* What msg.get_header('To') and msg.get_header('Cc') can return.
Headers == { Join(l) : l \in AddrLists }

\* A message and one reply, each with any To and Cc header.
InitAddr ==
    /\ parent = <<0, 1>>
    /\ hdrTo \in [1..2 -> Headers]
    /\ hdrCc \in [1..2 -> Headers]
    /\ tags = <<{}, {}>>
    /\ pc = "unit"
    /\ query_extra = ""
    /\ selected = {}
    /\ pending = {}
    /\ stack = <<>>
    /\ exit_status = "none"
    /\ shown = {}
    /\ unit_pm = FALSE
    /\ ncalls = 0
    /\ first_tags = <<>>

\* apply_mute, and with it Addressed.from_msg, on those messages.
SpecAddr == InitAddr /\ [][NextUnit]_vars

\* ------------------------------------------------------------------ claims
HasCmd(m) == MUTE_CMD_TAG \in tags[m]
IsMuted(m) == MUTED_TAG \in tags[m]
IsProcessed(m) == PROCESSED_TAG \in tags[m]

\* The muting loop has returned from every selected thread.
RunCompleted == pc = "report"

\* The muting loop holds the result of its query and has visited nothing yet.
JustSelected == pc = "muting" /\ stack = <<>> /\ pending = selected

RECURSIVE Decision(_)
\* The decision the specification prescribes for m, from the command tags and
\* addressing levels on the path from the root to m.
Decision(m) ==
    \/ HasCmd(m)
    \/ /\ parent[m] # 0
       /\ Decision(parent[m])
       /\ from_msg(m) <= from_msg(parent[m])

\* C1: every activation of apply_mute on a message carrying the command tag
\* has decided mute = TRUE and has written the muted tag, whatever
\* parent_muted and parent_addressed it was called with.
C1_CommandTagMutes ==
    \A i \in 1..Len(stack) :
        HasCmd(stack[i].msg) => stack[i].mute /\ IsMuted(stack[i].msg)

\* C1 witness: a command-tagged reply visited under an unmuted parent that
\* was addressed less strongly than the reply.
C1_Witness ==
    \E i \in 1..Len(stack) :
        /\ HasCmd(stack[i].msg)
        /\ ~stack[i].parent_muted
        /\ stack[i].parent_addressed # None
        /\ stack[i].addressed > stack[i].parent_addressed
        /\ IsMuted(stack[i].msg)

\* C2: every activation on a reply without the command tag was passed its
\* parent's decision and level, and decided to mute exactly when the parent
\* is muted and the reply's level is at most the parent's.
C2_InheritedDecision ==
    \A i \in 1..Len(stack) :
        LET m == stack[i].msg IN
        (parent[m] # 0 /\ ~HasCmd(m)) =>
            /\ stack[i - 1].msg = parent[m]
            /\ stack[i].parent_muted = stack[i - 1].mute
            /\ stack[i].parent_addressed = from_msg(parent[m])
            /\ stack[i].mute <=> (/\ stack[i].parent_muted
                                  /\ from_msg(m) <= from_msg(parent[m]))

\* C2 witness: a reply without the command tag, under a muted parent, that is
\* addressed more strongly than the parent and so is left unmuted.
C2_Witness ==
    \E i \in 1..Len(stack) :
        /\ parent[stack[i].msg] # 0
        /\ ~HasCmd(stack[i].msg)
        /\ stack[i].parent_muted
        /\ from_msg(stack[i].msg) > from_msg(parent[stack[i].msg])
        /\ ~stack[i].mute

\* C3: when a run without extra filter has completed, every message that
\* carries the command tag carries the muted tag.
C3_CommandedAreMuted ==
    (RunCompleted /\ query_extra = "") =>
        \A m \in Msgs : HasCmd(m) => IsMuted(m)

\* C4: when a run without extra filter has completed, every reply beneath a
\* processed message carries the processed marker, and carries the muted tag
\* exactly when the decision recomputed from its path prescribes it.
C4_NewReplyProcessed ==
    (RunCompleted /\ query_extra = "") =>
        \A n \in Msgs :
            (parent[n] # 0 /\ IsProcessed(parent[n])) =>
                IsProcessed(n) /\ (IsMuted(n) <=> Decision(n))

\* C5: with an empty extra filter the query returns exactly the roots of the
\* threads holding a command-tagged message and an unprocessed message, which
\* need not be the same message.
C5_SelectsByThread ==
    (JustSelected /\ query_extra = "") =>
        selected = { r \in Roots : /\ \E m \in Thread(r) : HasCmd(m)
                                   /\ \E m \in Thread(r) : ~IsProcessed(m) }

\* C6: once apply_mute(root, False, None) has returned, calling it again on
\* the unchanged tree leaves every tag set as the first call left it.
C6_Idempotent ==
    (~unit_pm /\ ncalls >= 1) => tags = first_tags

\* C6 witness: the second call has returned on a tree where the first visit
\* muted the root and left a reply unmuted.
C6_Witness ==
    /\ ~unit_pm
    /\ ncalls = 2
    /\ stack = <<>>
    /\ IsMuted(1)
    /\ \E m \in Msgs : parent[m] # 0 /\ ~IsMuted(m) /\ IsProcessed(m)

\* C7: no step removes the muted tag or the processed marker from a message
\* or deletes a message, and a step of the script neither creates a message
\* nor changes a header nor adds or removes a command tag.
C7_Monotone ==
    [][ /\ Len(tags') >= Len(tags)
        /\ \A m \in Msgs : tags[m] \cap {MUTED_TAG, PROCESSED_TAG} \subseteq tags'[m]
        /\ (pc # "idle" \/ pc' # "idle") =>
              /\ store' = store
              /\ Len(tags') = Len(tags)
              /\ \A m \in Msgs : (MUTE_CMD_TAG \in tags'[m]) <=> HasCmd(m)
      ]_vars

\* C7 witness: a later run has completed over a store that holds tags of an
\* earlier run and a command tag the human added after it.
C7_Witness ==
    /\ RunCompleted
    /\ \E m \in Msgs : HasCmd(m) /\ IsProcessed(m) /\ ~IsMuted(m)
    /\ \E m \in Msgs : HasCmd(m) /\ IsMuted(m)

\* C8: when a run has completed, every message of every selected thread
\* carries the processed marker.
C8_FullCoverage ==
    RunCompleted =>
        \A r \in selected : \A m \in Thread(r) : IsProcessed(m)

\* C8 witness: a completed run selected a thread of three messages in which a
\* processed message lies below a message that was not muted.
C8_Witness ==
    /\ RunCompleted
    /\ \E r \in selected :
          /\ Cardinality(Thread(r)) = 3
          /\ \E m \in Thread(r) :
                /\ parent[m] # 0
                /\ parent[parent[m]] # 0
                /\ ~IsMuted(parent[m])
                /\ IsProcessed(m)

\* C9: a thread in which no message carries the command tag is not among the
\* threads a query of the script returned, and none of its messages carries
\* any tag.
C9_NoCommandUntouched ==
    \A r \in Roots :
        (\A m \in Thread(r) : ~HasCmd(m)) =>
            /\ r \notin selected
            /\ r \notin shown
            /\ \A m \in Thread(r) : tags[m] = {}

\* C9 witness: a run that selected some thread has completed while a thread
\* of two messages without any command tag is in the store.
C9_Witness ==
    /\ RunCompleted
    /\ selected # {}
    /\ \E r \in Roots :
          /\ Cardinality(Thread(r)) >= 2
          /\ \A m \in Thread(r) : ~HasCmd(m)

\* C10: the outermost activation is on a thread root, called with
\* parent_muted = FALSE and parent_addressed = None; it decides to mute, and
\* the root carries the muted tag, exactly when the root carries the command
\* tag; no root carries the muted tag without the command tag.
C10_RootMutedIffCommand ==
    /\ \A r \in Roots : IsMuted(r) => HasCmd(r)
    /\ stack # <<>> =>
          /\ parent[stack[1].msg] = 0
          /\ ~stack[1].parent_muted
          /\ stack[1].parent_addressed = None
          /\ stack[1].mute <=> HasCmd(stack[1].msg)
          /\ IsMuted(stack[1].msg) <=> HasCmd(stack[1].msg)

\* C10 witness: the root of a selected thread has been visited without the
\* command tag, addressed in To, and is not muted.
C10_Witness ==
    /\ stack # <<>>
    /\ ~HasCmd(stack[1].msg)
    /\ stack[1].addressed = TO
    /\ IsProcessed(stack[1].msg)
    /\ ~IsMuted(stack[1].msg)

\* The thread R -> A -> B of the scenario: only R carries the command tag, R
\* is addressed at level, A and B in Cc; a run that selected R has completed.
Scenario(level) ==
    /\ RunCompleted
    /\ Len(parent) >= 3
    /\ parent[1] = 0 /\ parent[2] = 1 /\ parent[3] = 2
    /\ 1 \in selected
    /\ HasCmd(1) /\ ~HasCmd(2) /\ ~HasCmd(3)
    /\ from_msg(1) = level /\ from_msg(2) = CC /\ from_msg(3) = CC

\* C11 as stated: with R at level NONE, R, A and B all carry the muted tag
\* after the run.
C11_AllMuted ==
    Scenario(NONE) => IsMuted(1) /\ IsMuted(2) /\ IsMuted(3)

\* C11 as amended: with R at level NONE only R carries the muted tag after the
\* run (A, in Cc, is addressed more strongly than R); with R in Cc, R, A and B
\* all carry it.
C11_Scenario ==
    /\ Scenario(NONE) => IsMuted(1) /\ ~IsMuted(2) /\ ~IsMuted(3)
    /\ Scenario(CC) => IsMuted(1) /\ IsMuted(2) /\ IsMuted(3)

\* C11 witness: the run over the scenario with R at level NONE has completed.
C11_Witness == Scenario(NONE) /\ IsProcessed(3)

RECURSIVE Below(_, _)
\* d lies strictly below a in the reply tree.
Below(d, a) == parent[d] # 0 /\ (parent[d] = a \/ Below(parent[d], a))

RECURSIVE CmdBetween(_, _)
\* For d below a: a message on the path from a (excluded) to d (included)
\* carries the command tag.
CmdBetween(d, a) == d # a /\ (HasCmd(d) \/ CmdBetween(parent[d], a))

\* A reply without the command tag that is addressed more strongly than its
\* parent.
Halts(a) ==
    parent[a] # 0 /\ ~HasCmd(a) /\ from_msg(a) > from_msg(parent[a])

\* C12: a reply without the command tag that is addressed more strongly than
\* its parent is decided not muted and carries no muted tag, and so is every
\* message below it with no command tag between it and the reply.
C12_PropagationHalts ==
    /\ \A a \in Msgs : Halts(a) =>
          /\ ~IsMuted(a)
          /\ \A d \in Msgs : (Below(d, a) /\ ~CmdBetween(d, a)) => ~IsMuted(d)
    /\ \A i \in 1..Len(stack) : \A a \in Msgs :
          (Halts(a) /\ (stack[i].msg = a \/
                        (Below(stack[i].msg, a) /\ ~CmdBetween(stack[i].msg, a))))
              => ~stack[i].mute

\* C12 witness: a run has completed over R (command tag, level NONE, muted),
\* its reply A in To and a reply to A that is addressed no more strongly.
C12_Witness ==
    /\ RunCompleted
    /\ \E a \in Msgs :
          /\ Halts(a)
          /\ IsMuted(parent[a]) /\ from_msg(parent[a]) = NONE
          /\ from_msg(a) = TO /\ IsProcessed(a)
          /\ \E d \in Msgs : parent[d] = a /\ ~HasCmd(d) /\ IsProcessed(d)

\* The message the next call of apply_mute can be on.
NextVisited(m) ==
    \/ stack = <<>> /\ m \in pending
    \/ stack # <<>> /\ m \in Top.todo

\* C13: a step in which a store call fails ends the run (no activation and no
\* thread is left to visit), removes no tag from any message, and changes the
\* tags of no message other than the one whose visit failed.
C13_AbortKeepsTags ==
    [][ (pc = "muting" /\ exit_status' = "error") =>
            /\ pc' = "idle" /\ stack' = <<>> /\ pending' = {}
            /\ \A m \in Msgs : tags[m] \subseteq tags'[m]
            /\ \E f \in Msgs :
                  /\ NextVisited(f)
                  /\ \A m \in Msgs \ {f} : tags'[m] = tags[m]
      ]_vars

\* C13 witness: a run has failed after it marked a message; the mark is still
\* there and a reply to that message, not visited, carries no tag.
C13_Witness ==
    /\ pc = "idle"
    /\ exit_status = "error"
    /\ \E m \in Msgs :
          /\ IsProcessed(m) /\ IsMuted(m)
          /\ \E n \in Msgs : parent[n] = m /\ tags[n] = {}

\* One letter in lower case.
Lower(c) == CASE c = "M" -> "m" [] c = "E" -> "e" [] OTHER -> c

LowerSeq(a) == [i \in 1..Len(a) |-> Lower(a[i])]

\* The position of the first comma of h, or Len(h) + 1.
FirstComma(h) ==
    IF \E i \in 1..Len(h) : h[i] = ","
    THEN CHOOSE i \in 1..Len(h) : h[i] = "," /\ \A j \in 1..(i - 1) : h[j] # ","
    ELSE Len(h) + 1

RECURSIVE Split(_)
\* The addresses a header value lists, as written.
Split(h) ==
    IF h = <<>> THEN {}
    ELSE {SubSeq(h, 1, FirstComma(h) - 1)} \cup
         (IF FirstComma(h) >= Len(h) THEN {}
          ELSE Split(SubSeq(h, FirstComma(h) + 1, Len(h))))

\* Two header values list the same addresses up to letter case and order.
SameAddresses(g, h) ==
    { LowerSeq(a) : a \in Split(g) } = { LowerSeq(a) : a \in Split(h) }

\* C14: the level from_msg computed for a visited message is TO when the
\* address is listed in To, else CC when it is listed in Cc, else NONE; and
\* two visited messages whose To headers, and whose Cc headers, list the same
\* addresses up to letter case and order get the same level.
C14_LevelByAddress ==
    /\ \A i \in 1..Len(stack) :
          stack[i].addressed =
              IF EMAIL \in Split(hdrTo[stack[i].msg]) THEN TO
              ELSE IF EMAIL \in Split(hdrCc[stack[i].msg]) THEN CC
              ELSE NONE
    /\ \A i, j \in 1..Len(stack) :
          ( /\ SameAddresses(hdrTo[stack[i].msg], hdrTo[stack[j].msg])
            /\ SameAddresses(hdrCc[stack[i].msg], hdrCc[stack[j].msg]) )
          => stack[i].addressed = stack[j].addressed

\* The order half of C14 alone: headers that list the same addresses, as
\* written, in any order.
C14_OrderOnly ==
    \A i, j \in 1..Len(stack) :
        ( /\ Split(hdrTo[stack[i].msg]) = Split(hdrTo[stack[j].msg])
          /\ Split(hdrCc[stack[i].msg]) = Split(hdrCc[stack[j].msg]) )
        => stack[i].addressed = stack[j].addressed

\* C15: whatever muted and processed tags the store holds, the decision a call
\* of apply_mute takes for its message is the one given by the command tags
\* and addressing levels on the path from the root to it, and the call adds
\* the processed marker, and the muted tag exactly when that decision is to
\* mute, to that message and changes no other message.
C15_DependsOnPathOnly ==
    [][ Len(stack') > Len(stack) =>
          /\ stack'[Len(stack')].mute = Decision(stack'[Len(stack')].msg)
          /\ tags' = [tags EXCEPT ![stack'[Len(stack')].msg] =
                        @ \cup {PROCESSED_TAG} \cup
                          (IF Decision(stack'[Len(stack')].msg)
                           THEN {MUTED_TAG} ELSE {})]
      ]_vars

\* C15 witness: a message carries the muted and processed tags of an earlier
\* time, the call on it decides not to mute, and the call on its reply, which
\* would inherit a mute, decides not to mute either.
C15_Witness ==
    /\ pc = "unit"
    /\ Len(stack) = 2
    /\ IsMuted(stack[1].msg)
    /\ ~stack[1].mute
    /\ ~HasCmd(stack[2].msg)
    /\ stack[2].addressed <= stack[1].addressed
    /\ ~stack[2].mute
    /\ ~IsMuted(stack[2].msg)

\* C16: in every activation of apply_mute of a run of the script,
\* parent_addressed is None exactly when the message is the root of its
\* thread, the root's parent_muted is FALSE, and so no activation has
\* parent_muted TRUE together with parent_addressed None.
C16_RootBranchUnreached ==
    \A i \in 1..Len(stack) :
        /\ (stack[i].parent_addressed = None) <=> (parent[stack[i].msg] = 0)
        /\ parent[stack[i].msg] = 0 => ~stack[i].parent_muted
        /\ ~(stack[i].parent_muted /\ stack[i].parent_addressed = None)

\* C16 witness: a run is inside the call on a reply of a muted root, with
\* parent_muted TRUE and the root's level as parent_addressed.
C16_Witness ==
    /\ pc = "muting"
    /\ Len(stack) = 2
    /\ stack[1].parent_addressed = None
    /\ stack[2].parent_muted
    /\ stack[2].parent_addressed = stack[1].addressed

\* C17: in whatever order the replies of each message are visited, every
\* activation's decision is the one given by the path from the root to its
\* message alone, and when the run has completed every message of a selected
\* thread carries the processed marker, and the muted tag exactly when that
\* decision is to mute: the final tags do not depend on the order, nor on
\* the siblings of a message.
C17_SiblingIndependence ==
    /\ \A i \in 1..Len(stack) : stack[i].mute = Decision(stack[i].msg)
    /\ RunCompleted =>
          \A r \in selected : \A m \in Thread(r) :
              /\ IsProcessed(m)
              /\ IsMuted(m) <=> Decision(m)

\* C17 witness: a completed run has visited two replies of one muted message,
\* and muted one of them and not the other.
C17_Witness ==
    /\ RunCompleted
    /\ \E a, b \in Msgs :
          /\ a # b
          /\ parent[a] # 0
          /\ parent[a] = parent[b]
          /\ Root(a) \in selected
          /\ IsMuted(parent[a])
          /\ IsProcessed(a) /\ IsMuted(a)
          /\ IsProcessed(b) /\ ~IsMuted(b)

\* C18: when the muting loop of a run has completed, the run's query matches
\* no thread, so the final print loop shows none; and a thread that a query
\* does not match comes to match it only in a step that adds a message or a
\* command tag to the store.
C18_Quiescence ==
    /\ [](RunCompleted => search_threads(query_extra) = {})
    /\ [](shown = {})
    /\ [][ \A e \in ExtraFilters : \A r \in 1..Len(parent') :
              (r \notin search_threads(e) /\ r \in search_threads(e)') =>
                  \/ Len(parent') > Len(parent)
                  \/ \E m \in Msgs : ~HasCmd(m) /\ MUTE_CMD_TAG \in tags'[m]
         ]_vars

\* C18 witness: a run that visited a command-tagged thread has completed, its
\* final print loop has shown no thread, and no query matches the store as
\* the run left it.
C18_Witness ==
    /\ pc = "idle"
    /\ exit_status = "ok"
    /\ shown = {}
    /\ \E m \in Msgs : HasCmd(m) /\ IsProcessed(m) /\ IsMuted(m)
    /\ \A e \in ExtraFilters : search_threads(e) = {}

\* C19: in every state reached by completed and failed runs, command tags
\* and arrivals, a message that carries the muted tag carries the command
\* tag, or is a reply whose parent carries the muted tag and whose addressing
\* level is at most its parent's.
C19_MutedJustified ==
    \A m \in Msgs :
        IsMuted(m) =>
            \/ HasCmd(m)
            \/ /\ parent[m] # 0
               /\ IsMuted(parent[m])
               /\ from_msg(m) <= from_msg(parent[m])

\* C19 witness: a failed run has left the muted tag, without the processed
\* marker, on a reply that has no command tag.
C19_Witness ==
    /\ pc = "idle"
    /\ exit_status = "error"
    /\ \E m \in Msgs :
          /\ parent[m] # 0
          /\ IsMuted(m) /\ ~HasCmd(m) /\ ~IsProcessed(m)

\* C20: a message that carries the muted tag without the processed marker is
\* one whose visit failed between lines 104 and 105. Once a later run over the
\* whole store (no --query-extra) has completed, no such message is left: the
\* thread was selected again and every one of its messages was visited, as in
\* a run that never failed.
C20_RecoversAfterAbort ==
    (RunCompleted /\ query_extra = "") =>
        \A m \in Msgs : IsMuted(m) => IsProcessed(m)

====
